---- MODULE Spec2Model ----
(***************************************************************************)
(* autonomy-packages-bumper: one batch pass that fetches                   *)
(* packages/packages.json of every repository of REPOS, aggregates the     *)
(* "dev" maps into `published`, reconciles the local "third_party" map     *)
(* against it, prints the report and writes the local file back.           *)
(*                                                                         *)
(* Names, hashes and repositories are small integers.  A JSON object is a  *)
(* function on its keys; the local "third_party" object, whose iteration   *)
(* order the outcome lists follow, is a sequence of <<name, hash>> items   *)
(* with distinct names.  The code compares names only for equality, so     *)
(* names are numbered in the order the local file lists them: the local    *)
(* file holds the names 1..k, the remote documents any of 1..MaxNames.     *)
(***************************************************************************)
EXTENDS Integers, Sequences, FiniteSets, TLC

\* ---------------------------------------------------------------- bounds
NRepos == 2
MaxNames == 1
MaxHashes == 2

\* REPOS (declared order); the model keeps the first NRepos of them.
REPOS == [i \in 1..NRepos |-> i]
Names == 1..MaxNames
Hashes == 1..MaxHashes

\* ------------------------------------------------------------ environment
EmptyMap == [n \in {} |-> 0]

\* a "dev" object: package name -> hash
DevMaps == UNION {[S -> Hashes] : S \in SUBSET Names}

\* a remote packages.json: an object with or without the "dev" key
RemoteDocs == {EmptyMap} \cup {[dev |-> m] : m \in DevMaps}

\* what urlopen + decoding does for one repository:
\*   "ok"         2xx, envelope and content decode to the document `doc`
\*   "http_error" urllib.error.HTTPError (non-2xx)
\*   "url_error"  urllib.error.URLError (network error)
\*   "raises"     any other exception (body is not JSON, no "content" field,
\*                bad base64, content is not JSON)
\* Only an "ok" fetch hands a document to main.
FetchOutcomes ==
    {[kind |-> "ok", doc |-> d] : d \in RemoteDocs}
        \cup {[kind |-> k, doc |-> EmptyMap] : k \in {"http_error", "url_error", "raises"}}

\* the sections of the local manifest other than "third_party"
OwnDev == [n \in {1} |-> 1]

\* the local "third_party" object: items in file order
ThirdParties == UNION {[1..k -> Hashes] : k \in 0..MaxNames}

Items(hs) == [i \in 1..Len(hs) |-> <<i, hs[i]>>]

LocalDocs ==
    {[dev |-> OwnDev]} \cup {[dev |-> OwnDev, third_party |-> Items(hs)] : hs \in ThirdParties}

\* TARGET_FILE on disk: absent, not JSON, or a JSON document
LocalFiles ==
    {[kind |-> "json", doc |-> d, layout |-> "as_found"] : d \in LocalDocs}
        \cup {[kind |-> k, doc |-> EmptyMap, layout |-> "as_found"] : k \in {"missing", "malformed"}}

VARIABLES
    remote,         \* repository -> fetch outcome (fixed for the behaviour)
    file,           \* TARGET_FILE on disk
    dry_run,        \* args.dry_run
    pc,             \* position in main
    repo_idx,       \* position of `for repo_name in REPOS`
    published,      \* name -> list of Package
    checked_repos,
    packages,       \* the loaded manifest
    item_idx,       \* position of `for name, hash in ...items()`
    updated,
    collisions,
    not_found,
    stdout,         \* the printed report, once printed
    stderr,         \* github_api's diagnostics
    exit_status,    \* <<>> while running, <<0>> or <<1>> at the end
    fetched,        \* repositories fetch_packages was called for, in call order
    writes,         \* times TARGET_FILE was opened for writing in this run
    history         \* the finished invocations: <<[dry_run, exit_status, file]>>

vars == <<remote, file, dry_run, pc, repo_idx, published, checked_repos, packages,
          item_idx, updated, collisions, not_found, stdout, stderr, exit_status,
          fetched, writes, history>>

\* ---------------------------------------------------------------- helpers
Package(name, hash, repo) == [name |-> name, hash |-> hash, repo |-> repo]

\* faulty variant: URLError is not caught
IsNoneHttpOnly(outcome) == outcome.kind = "http_error"

\* faulty variant: HTTPError is not caught
IsNoneUrlOnly(outcome) == outcome.kind = "url_error"

\* github_api: HTTPError and URLError are caught and give None
IsNone(outcome) == outcome.kind \in {"http_error", "url_error"}

\* data.get("dev", {})
DevOf(data) == IF "dev" \in DOMAIN data THEN data.dev ELSE EmptyMap

\* packages.get("third_party", {})
ThirdPartyOf(pkgs) == IF "third_party" \in DOMAIN pkgs THEN pkgs.third_party ELSE <<>>

\* for name, hash in dev.items(): published.setdefault(name, []).append(Package(...))
AddClaims(pub, dev, repo) ==
    [n \in (DOMAIN pub) \cup (DOMAIN dev) |->
        IF n \in DOMAIN dev
        THEN Append(IF n \in DOMAIN pub THEN pub[n] ELSE <<>>, Package(n, dev[n], repo))
        ELSE pub[n]]

\* faulty variant: the hash test is == instead of !=
ClassifyEq(name, hash, pub) ==
    IF name \notin DOMAIN pub THEN "not_found"
    ELSE IF Len(pub[name]) > 1 THEN "collision"
    ELSE IF hash = pub[name][1].hash THEN "updated"
    ELSE "unchanged"

\* faulty variant: no collision branch, the first claimant wins
ClassifyFirstWins(name, hash, pub) ==
    IF name \notin DOMAIN pub THEN "not_found"
    ELSE IF hash # pub[name][1].hash THEN "updated"
    ELSE "unchanged"

\* the branch of the if/elif chain taken for one item
Classify(name, hash, pub) ==
    IF name \notin DOMAIN pub THEN "not_found"
    ELSE IF Len(pub[name]) > 1 THEN "collision"
    ELSE IF hash # pub[name][1].hash THEN "updated"
    ELSE "unchanged"

\* [p.repo for p in published[name]]
Claimants(name, pub) == [i \in 1..Len(pub[name]) |-> pub[name][i].repo]

\* faulty variant: old and new hash swapped in the tuple
UpdatedEntrySwapped(name, hash, pub) == <<name, pub[name][1].hash, hash, pub[name][1].repo>>

\* (name, hash, new_hash, published[name][0].repo)
UpdatedEntry(name, hash, pub) == <<name, hash, pub[name][1].hash, pub[name][1].repo>>

\* faulty variant: the new hash is never stored
SetHashNoop(pkgs, name, new_hash) == pkgs

\* faulty variant: the manifest is rebuilt from "third_party" alone
SetHashRebuild(pkgs, name, new_hash) ==
    [third_party |->
        [i \in 1..Len(pkgs.third_party) |->
            IF pkgs.third_party[i][1] = name THEN <<name, new_hash>> ELSE pkgs.third_party[i]]]

\* packages["third_party"][name] = new_hash
SetHash(pkgs, name, new_hash) ==
    [pkgs EXCEPT !.third_party =
        [i \in 1..Len(@) |-> IF @[i][1] = name THEN <<name, new_hash>> ELSE @[i]]]

\* faulty variant: --dry-run is not consulted
ShouldWriteIgnoresDryRun(dry, upd) == upd # <<>>

\* faulty variant: the file is rewritten even when nothing was updated
ShouldWriteAlways(dry, upd) == ~dry

\* if not args.dry_run and updated
ShouldWrite(dry, upd) == ~dry /\ upd # <<>>

\* json.dump(packages, f, indent=4)
Dump(pkgs) == [kind |-> "json", doc |-> pkgs, layout |-> "indent4"]

\* ------------------------------------------------------------------- Init
Init ==
    /\ remote \in [1..NRepos -> FetchOutcomes]
    /\ file \in LocalFiles
    /\ dry_run \in BOOLEAN
    /\ pc = "fetch"
    /\ repo_idx = 1
    /\ published = EmptyMap
    /\ checked_repos = <<>>
    /\ packages = EmptyMap
    /\ item_idx = 1
    /\ updated = <<>>
    /\ collisions = <<>>
    /\ not_found = <<>>
    /\ stdout = <<>>
    /\ stderr = <<>>
    /\ exit_status = <<>>
    /\ fetched = <<>>
    /\ writes = 0
    /\ history = <<>>

\* ---------------------------------------------------------------- actions
\* where main goes after the iteration for REPOS[i]
AfterFetch(i) == IF i = NRepos THEN "load" ELSE "fetch"

\* faulty variant: `break` instead of `continue`
Break(i) == "load"

\* `continue` after a fetch that returned None
Continue(i) == AfterFetch(i)

\* one iteration of the fetch loop: the fetch succeeded
FetchOk ==
    /\ pc = "fetch"
    /\ LET repo_name == REPOS[repo_idx]
           outcome == remote[repo_name]
       IN /\ outcome.kind = "ok"
          /\ fetched' = Append(fetched, repo_name)
          /\ checked_repos' = Append(checked_repos, repo_name)
          /\ published' = AddClaims(published, DevOf(outcome.doc), repo_name)
    /\ pc' = AfterFetch(repo_idx)
    /\ repo_idx' = repo_idx + 1
    /\ UNCHANGED <<remote, file, dry_run, packages, item_idx, updated, collisions,
                   not_found, stdout, stderr, exit_status, writes, history>>

\* one iteration of the fetch loop: github_api returned None
FetchNone ==
    /\ pc = "fetch"
    /\ LET repo_name == REPOS[repo_idx]
           outcome == remote[repo_name]
       IN /\ outcome.kind # "ok"
          /\ IsNone(outcome)
          /\ fetched' = Append(fetched, repo_name)
          /\ stderr' = Append(stderr, outcome.kind)
    /\ pc' = Continue(repo_idx)
    /\ repo_idx' = repo_idx + 1
    /\ UNCHANGED <<remote, file, dry_run, published, checked_repos, packages, item_idx,
                   updated, collisions, not_found, stdout, exit_status, writes, history>>

\* one iteration of the fetch loop: an exception nobody catches
FetchRaises ==
    /\ pc = "fetch"
    /\ LET repo_name == REPOS[repo_idx]
           outcome == remote[repo_name]
       IN /\ outcome.kind # "ok"
          /\ ~IsNone(outcome)
          /\ fetched' = Append(fetched, repo_name)
          /\ stderr' = Append(stderr, "traceback")
    /\ pc' = "crashed"
    /\ exit_status' = <<1>>
    /\ UNCHANGED <<remote, file, dry_run, repo_idx, published, checked_repos, packages,
                   item_idx, updated, collisions, not_found, stdout, writes, history>>

\* with open(TARGET_FILE) as f: packages = json.load(f); the result lists start empty
LoadLocal ==
    /\ pc = "load"
    /\ file.kind = "json"
    /\ packages' = file.doc
    /\ item_idx' = 1
    /\ updated' = <<>>
    /\ collisions' = <<>>
    /\ not_found' = <<>>
    /\ pc' = IF Len(ThirdPartyOf(file.doc)) = 0 THEN "report" ELSE "reconcile"
    /\ UNCHANGED <<remote, file, dry_run, repo_idx, published, checked_repos, stdout,
                   stderr, exit_status, fetched, writes, history>>

\* FileNotFoundError or json.JSONDecodeError, uncaught
LoadRaises ==
    /\ pc = "load"
    /\ file.kind # "json"
    /\ stderr' = Append(stderr, "traceback")
    /\ pc' = "crashed"
    /\ exit_status' = <<1>>
    /\ UNCHANGED <<remote, file, dry_run, repo_idx, published, checked_repos, packages,
                   item_idx, updated, collisions, not_found, stdout, fetched, writes,
                   history>>

\* one iteration of the reconciliation loop
Reconcile ==
    /\ pc = "reconcile"
    /\ LET item == ThirdPartyOf(packages)[item_idx]
           name == item[1]
           hash == item[2]
           class == Classify(name, hash, published)
       IN /\ not_found' = IF class = "not_found" THEN Append(not_found, name) ELSE not_found
          /\ collisions' = IF class = "collision"
                           THEN Append(collisions, <<name, Claimants(name, published)>>)
                           ELSE collisions
          /\ updated' = IF class = "updated"
                        THEN Append(updated, UpdatedEntry(name, hash, published))
                        ELSE updated
          /\ packages' = IF class = "updated"
                         THEN SetHash(packages, name, published[name][1].hash)
                         ELSE packages
    /\ pc' = IF item_idx = Len(ThirdPartyOf(packages)) THEN "report" ELSE "reconcile"
    /\ item_idx' = item_idx + 1
    /\ UNCHANGED <<remote, file, dry_run, repo_idx, published, checked_repos, stdout,
                   stderr, exit_status, fetched, writes, history>>

\* the prints of lines 117-135
Report ==
    /\ pc = "report"
    /\ stdout' = <<[checked |-> checked_repos, bumped |-> updated,
                    skipped |-> collisions, missing |-> not_found]>>
    /\ pc' = "write"
    /\ UNCHANGED <<remote, file, dry_run, repo_idx, published, checked_repos, packages,
                   item_idx, updated, collisions, not_found, stderr, exit_status,
                   fetched, writes, history>>

\* the write-back, taken
WriteBack ==
    /\ pc = "write"
    /\ ShouldWrite(dry_run, updated)
    /\ file' = Dump(packages)
    /\ writes' = writes + 1
    /\ pc' = "done"
    /\ exit_status' = <<0>>
    /\ UNCHANGED <<remote, dry_run, repo_idx, published, checked_repos, packages,
                   item_idx, updated, collisions, not_found, stdout, stderr, fetched,
                   history>>

\* the write-back, skipped
SkipWrite ==
    /\ pc = "write"
    /\ ~ShouldWrite(dry_run, updated)
    /\ pc' = "done"
    /\ exit_status' = <<0>>
    /\ UNCHANGED <<remote, file, dry_run, repo_idx, published, checked_repos, packages,
                   item_idx, updated, collisions, not_found, stdout, stderr, fetched,
                   writes, history>>

\* the tool is invoked again: same remote state, the file as the last run left it
Rerun ==
    /\ pc \in {"done", "crashed"}
    /\ history = <<>>
    /\ history' = <<[dry_run |-> dry_run, exit_status |-> exit_status, file |-> file]>>
    /\ dry_run' \in BOOLEAN
    /\ pc' = "fetch"
    /\ repo_idx' = 1
    /\ published' = EmptyMap
    /\ checked_repos' = <<>>
    /\ packages' = EmptyMap
    /\ item_idx' = 1
    /\ updated' = <<>>
    /\ collisions' = <<>>
    /\ not_found' = <<>>
    /\ stdout' = <<>>
    /\ stderr' = <<>>
    /\ exit_status' = <<>>
    /\ fetched' = <<>>
    /\ writes' = 0
    /\ UNCHANGED <<remote, file>>

Next ==
    \/ FetchOk
    \/ FetchNone
    \/ FetchRaises
    \/ LoadLocal
    \/ LoadRaises
    \/ Reconcile
    \/ Report
    \/ WriteBack
    \/ SkipWrite

\* one invocation
Spec == Init /\ [][Next]_vars

NextTwice ==
    \/ Next
    \/ Rerun

\* two invocations in a row
SpecTwice == Init /\ [][NextTwice]_vars

\* ------------------------------------------------------------- vocabulary
\* the reconciliation loop is over and the file is still as it was loaded
AfterLoop == pc \in {"report", "write"}

\* the "third_party" items as loaded from the file
LocalItems == ThirdPartyOf(file.doc)

\* the hash the in-memory manifest holds for the i-th item
HashNow(i) == ThirdPartyOf(packages)[i][2]

\* how often name n is reported in a list of tuples / in not_found
Occ(list, n) == Cardinality({i \in DOMAIN list : list[i][1] = n})
OccName(list, n) == Cardinality({i \in DOMAIN list : list[i] = n})

HasClaims(n, k) == n \in DOMAIN published /\ Len(published[n]) = k
ManyClaims(n) == n \in DOMAIN published /\ Len(published[n]) >= 2

C2_CollisionNeverResolved ==
    pc \in {"report", "write", "done"} =>
        \A i \in DOMAIN ThirdPartyOf(packages) :
            LET n == ThirdPartyOf(packages)[i][1]
            IN ManyClaims(n) =>
                /\ Occ(updated, n) = 0
                /\ OccName(not_found, n) = 0
                /\ Occ(collisions, n) = 1
                /\ \A j \in DOMAIN collisions :
                      collisions[j][1] = n =>
                          collisions[j][2] = [k \in 1..Len(published[n]) |-> published[n][k].repo]
                /\ AfterLoop => HashNow(i) = LocalItems[i][2]

\* two claims that agree with each other but not with the local hash: a
\* first-claimant-wins rule would have bumped the entry
C2_Witness ==
    /\ pc = "done"
    /\ \E i \in DOMAIN ThirdPartyOf(packages) :
        LET n == ThirdPartyOf(packages)[i][1]
        IN /\ HasClaims(n, 2)
           /\ published[n][1].hash = published[n][2].hash
           /\ published[n][1].hash # HashNow(i)
           /\ Occ(collisions, n) = 1

\* ------------------------------------------------------------------ C3
\* C3: a local name is in updated iff the aggregated map holds exactly one
\* claim for it whose hash differs from the loaded hash; its tuple is
\* (name, loaded hash, claimed hash, claiming repository) and the in-memory
\* hash of the name is then the claimed hash.
C3_UpdatedIffSingleStaleClaim ==
    AfterLoop =>
        \A i \in DOMAIN LocalItems :
            LET n == LocalItems[i][1]
                h == LocalItems[i][2]
                stale == HasClaims(n, 1) /\ published[n][1].hash # h
            IN /\ (Occ(updated, n) >= 1) <=> stale
               /\ stale =>
                    /\ \A j \in DOMAIN updated :
                          updated[j][1] = n =>
                              updated[j] = <<n, h, published[n][1].hash, published[n][1].repo>>
                    /\ HashNow(i) = published[n][1].hash

\* an entry bumped from the claim of the last declared repository
C3_Witness ==
    /\ pc = "write"
    /\ updated # <<>>
    /\ updated[1][4] = NRepos
    /\ updated[1][2] # updated[1][3]
    /\ HashNow(1) = updated[1][3]

\* ------------------------------------------------------------------ C4
\* C4 as stated: the second of two runs against the same remote state
\* reports zero updated entries and leaves the file as the first run left it.
C4_SecondRunReportsNothing ==
    (history # <<>> /\ pc = "done") => (updated = <<>> /\ file = history[1].file)

\* C4 as amended: when the first run was made without --dry-run, the second
\* run against the same remote state reports zero updated entries and
\* never rewrites the file the first run left.
C4_SecondRunAfterWriteBack ==
    (history # <<>> /\ ~history[1].dry_run) =>
        /\ updated = <<>>
        /\ writes = 0
        /\ file = history[1].file
        /\ pc = "done" => (stdout[1].bumped = <<>> /\ packages = file.doc)

\* the first run bumped an entry and wrote it back, the second run is over
C4_Witness ==
    /\ history # <<>>
    /\ ~history[1].dry_run
    /\ history[1].exit_status = <<0>>
    /\ history[1].file.layout = "indent4"
    /\ pc = "done"

\* ------------------------------------------------------------------ C5
\* C5: under --dry-run no step of the run changes the persisted file,
\* however many updates the reconciliation computes.
C5_DryRunNeverWrites == [][dry_run => file' = file]_vars

\* a dry run that is over, with an update computed in memory only
C5_Witness ==
    /\ dry_run
    /\ pc = "done"
    /\ updated # <<>>
    /\ packages # file.doc
    /\ file.layout = "as_found"

\* ------------------------------------------------------------------ C6
\* the repositories among `repos` whose fetch succeeded, in order
OkAmong(repos) == SelectSeq(repos, LAMBDA r : remote[r].kind = "ok")

\* the claims for name n a fetch of `repos` yields, in order
ClaimsAmong(repos, n) ==
    LET from == SelectSeq(OkAmong(repos), LAMBDA r : n \in DOMAIN DevOf(remote[r].doc))
    IN [k \in 1..Len(from) |-> Package(n, DevOf(remote[from[k]].doc)[n], from[k])]

\* C6: repositories are fetched once each in declared order, all of them
\* before the local file is loaded; an HTTP or network error of one of them
\* never ends the run; the claims are exactly those of the successfully
\* fetched repositories, and checked_repos lists those in declared order.
C6_FetchAllOnceInOrder ==
    /\ fetched = SubSeq(REPOS, 1, Len(fetched))
    /\ pc = "fetch" => Len(fetched) = repo_idx - 1
    /\ pc \in {"load", "reconcile", "report", "write", "done"} => fetched = REPOS
    /\ pc = "crashed" =>
          \/ remote[fetched[Len(fetched)]].kind = "raises"
          \/ fetched = REPOS /\ file.kind # "json"
    /\ checked_repos = OkAmong(fetched)
    /\ \A n \in Names :
          LET cl == ClaimsAmong(fetched, n)
          IN IF cl = <<>>
             THEN n \notin DOMAIN published
             ELSE n \in DOMAIN published /\ published[n] = cl
    /\ DOMAIN published \subseteq Names

\* the first repository failed with a network error, the run went on to
\* the last one and ended normally
C6_Witness ==
    /\ pc = "done"
    /\ remote[1].kind = "url_error"
    /\ checked_repos # <<>>
    /\ checked_repos[Len(checked_repos)] = NRepos
    /\ published # EmptyMap

\* ------------------------------------------------------------------ C7
\* every fetch returns a document or fails with HTTPError / URLError
FetchesHandled == \A r \in 1..NRepos : remote[r].kind # "raises"

\* ... and the local file is a JSON document
Handled == FetchesHandled /\ file.kind = "json"

\* C7 as stated: whatever the fetches return or fail with and whatever the
\* state of the local file (present, missing, malformed), the run never
\* ends abnormally and its exit status is never non-zero.
C7_AlwaysExitsZero == FetchesHandled => (pc # "crashed" /\ exit_status # <<1>>)

\* C7 as amended: when every fetch returns a document or fails with an HTTP
\* or network error and the local file is present and well-formed, the run
\* goes on until its normal end and exits with status zero, the fetch
\* failures being reported on the diagnostic stream only; otherwise the run
\* ends with an uncaught exception and a non-zero status.
C7_ExitsZeroWhenHandled ==
    /\ Handled =>
          /\ pc # "crashed"
          /\ IF pc = "done" THEN exit_status = <<0>> ELSE exit_status = <<>> /\ ENABLED Next
          /\ pc \in {"load", "reconcile", "report", "write", "done"} =>
                LET failed == SelectSeq(REPOS, LAMBDA r : remote[r].kind # "ok")
                IN stderr = [k \in 1..Len(failed) |-> remote[failed[k]].kind]
    /\ pc = "crashed" => (~Handled /\ exit_status = <<1>>)
    /\ (~Handled /\ pc = "done") => FALSE

\* every fetch failed, the run still ended normally
C7_Witness ==
    /\ pc = "done"
    /\ exit_status = <<0>>
    /\ Len(stderr) = NRepos
    /\ checked_repos = <<>>

\* ------------------------------------------------------------------ C8
\* C8: at the end of a run without --dry-run that updated an entry, the
\* file is the in-memory manifest as json.dump writes it, every updated
\* hash applied, whether or not a repository failed; a run that updated
\* nothing never opens the file for writing.
C8_WriteBackApplied ==
    pc = "done" =>
        /\ (~dry_run /\ updated # <<>>) =>
              /\ writes = 1
              /\ file = [kind |-> "json", doc |-> packages, layout |-> "indent4"]
              /\ \A j \in DOMAIN updated :
                    \E i \in DOMAIN ThirdPartyOf(file.doc) :
                        ThirdPartyOf(file.doc)[i] = <<updated[j][1], updated[j][3]>>
        /\ updated = <<>> =>
              /\ writes = 0
              /\ file.layout = "as_found"
              /\ file.doc = packages

\* an update written back although a repository failed to fetch
C8_Witness ==
    /\ pc = "done"
    /\ ~dry_run
    /\ updated # <<>>
    /\ stderr # <<>>
    /\ file.layout = "indent4"

\* ------------------------------------------------------------------ C9
\* the remote state with every failed fetch replaced by a successful fetch
\* of a document whose "dev" map is empty
AsIfEmpty == [r \in 1..NRepos |->
                IF IsNone(remote[r]) THEN [kind |-> "ok", doc |-> [dev |-> EmptyMap]]
                ELSE remote[r]]

\* the claims for name n under the remote state rem, in declared order
ClaimsUnder(rem, n) ==
    LET from == SelectSeq(REPOS, LAMBDA r : rem[r].kind = "ok" /\ n \in DOMAIN DevOf(rem[r].doc))
    IN [k \in 1..Len(from) |-> Package(n, DevOf(rem[from[k]].doc)[n], from[k])]

\* the outcome class of an item with local hash h and the claims cl
ClassOf(h, cl) ==
    IF Len(cl) = 0 THEN "not_found"
    ELSE IF Len(cl) >= 2 THEN "collision"
    ELSE IF cl[1].hash # h THEN "updated"
    ELSE "unchanged"

\* the position of name n in the loaded third_party map
Pos(n) == CHOOSE i \in DOMAIN LocalItems : LocalItems[i][1] = n

\* C9: a local name that no successfully fetched repository publishes is
\* in not_found, and the three lists (each in file order) and the
\* in-memory manifest are what they are when every failed repository is
\* instead fetched with an empty "dev" map.
C9_FailedRepoIsSilent ==
    AfterLoop =>
        /\ \A i \in DOMAIN LocalItems :
              LET n == LocalItems[i][1]
              IN (\A r \in 1..NRepos :
                      remote[r].kind = "ok" => n \notin DOMAIN DevOf(remote[r].doc))
                    => /\ OccName(not_found, n) = 1
                       /\ Occ(updated, n) = 0
                       /\ Occ(collisions, n) = 0
                       /\ HashNow(i) = LocalItems[i][2]
        /\ \A i \in DOMAIN LocalItems :
              LET n == LocalItems[i][1]
                  h == LocalItems[i][2]
                  cl == ClaimsUnder(AsIfEmpty, n)
                  class == ClassOf(h, cl)
              IN /\ OccName(not_found, n) = IF class = "not_found" THEN 1 ELSE 0
                 /\ Occ(collisions, n) = IF class = "collision" THEN 1 ELSE 0
                 /\ Occ(updated, n) = IF class = "updated" THEN 1 ELSE 0
                 /\ \A k \in DOMAIN collisions :
                       collisions[k][1] = n =>
                           collisions[k][2] = [j \in 1..Len(cl) |-> cl[j].repo]
                 /\ \A k \in DOMAIN updated :
                       updated[k][1] = n => updated[k] = <<n, h, cl[1].hash, cl[1].repo>>
                 /\ HashNow(i) = IF class = "updated" THEN cl[1].hash ELSE h
        /\ Len(not_found) + Len(collisions) + Len(updated) <= Len(LocalItems)
        /\ \A j, k \in DOMAIN not_found : j < k => Pos(not_found[j]) < Pos(not_found[k])
        /\ \A j, k \in DOMAIN collisions : j < k => Pos(collisions[j][1]) < Pos(collisions[k][1])
        /\ \A j, k \in DOMAIN updated : j < k => Pos(updated[j][1]) < Pos(updated[k][1])
        /\ DOMAIN packages = DOMAIN file.doc

\* the first repository failed, the last one was fetched, and a local name
\* is reported as not found
C9_Witness ==
    /\ pc = "write"
    /\ IsNone(remote[1])
    /\ remote[NRepos].kind = "ok"
    /\ not_found # <<>>
    /\ packages = file.doc

====
